---- MODULE Spec2Model ----
(***************************************************************************)
(* Verification model of tiny-browserbook: the selector matcher and the    *)
(* stylesheet parser (css/css.rs), the style resolver (style/style.rs),    *)
(* the markup parser (html/html.rs), the layout builder, the view of a     *)
(* layout tree (render/render.rs) and the Renderer with the document it    *)
(* shares with the script runtime (renderer/renderer.rs).  The pure        *)
(* functions are operators computed the way the code computes them; each   *)
(* specification draws their inputs from bounded sets in its Init and      *)
(* applies them in its actions; the Renderer is a state machine of its     *)
(* methods, statement by statement, beside the script collaborator.        *)
(***************************************************************************)
EXTENDS Integers, Sequences, FiniteSets, TLC

VARIABLES node, stylesheet, matched, styled, done, input, parsed, css, layout,
          source, mutex, pc, view

\* The variables of the renderer and of its collaborator, and the structure a
\* parser input was written from.
rendererVars == <<source, mutex, pc, view>>

vars ==
    <<node, stylesheet, matched, styled, done, input, parsed, css, layout, rendererVars>>

(***************************************************************************)
(* Bounds of the input sets.                                               *)
(***************************************************************************)
MaxSelectors == 2
MaxDecls == 2
MaxRules == 2
MaxChildren == 2
MaxDepth == 3
MaxPieces == 4
MaxAttrs == 3

\* All sequences over S of length lo..hi.
SeqsOf(S, lo, hi) == UNION {[1..n -> S] : n \in lo..hi}

\* Concatenation of a sequence of sequences.
RECURSIVE Flatten(_)
Flatten(ss) == IF ss = <<>> THEN <<>> ELSE Head(ss) \o Flatten(Tail(ss))

(***************************************************************************)
(* html/dom.rs: Node, NodeType, Element, Text.                             *)
(***************************************************************************)
\* AttrMap = HashMap<String, String>: a function on a finite set of names.
AttrMapsOver(names, values) == UNION {[S -> values] : S \in SUBSET names}

\* HashMap::new(): the mapping with no key (AttrMap::new() included).
HashMap_new == <<>>

ElementType(tag_name, attributes) ==
    [kind |-> "Element", tag_name |-> tag_name, attributes |-> attributes]

TextType(data) == [kind |-> "Text", data |-> data]

Element_new(name, attributes, children) ==
    [node_type |-> ElementType(name, attributes), children |-> children]

Text_new(text) == [node_type |-> TextType(text), children |-> <<>>]

(***************************************************************************)
(* css/css.rs: Stylesheet, Rule, Declaration, CSSValue, SimpleSelector.    *)
(***************************************************************************)
Keyword(s) == [keyword |-> s]

Declaration(name, value) == [name |-> name, value |-> value]

UniversalSelector == [kind |-> "UniversalSelector"]

TypeSelector(tag_name) == [kind |-> "TypeSelector", tag_name |-> tag_name]

AttributeSelector(tag_name, op, attribute, value) ==
    [kind |-> "AttributeSelector", tag_name |-> tag_name, op |-> op,
     attribute |-> attribute, value |-> value]

ClassSelector(class_name) == [kind |-> "ClassSelector", class_name |-> class_name]

AttributeSelectorOp == {"Eq", "Contain"}

Rule(selectors, declarations) ==
    [selectors |-> selectors, declarations |-> declarations]

\* Selector matching as a complete implementation would do it: the attribute
\* arm consults the element's attribute, the class arm its class attribute.
SimpleSelector_matches_attribute(s, n) ==
    CASE s.kind = "UniversalSelector" -> TRUE
      [] s.kind = "TypeSelector" ->
            IF n.node_type.kind = "Element"
            THEN n.node_type.tag_name = s.tag_name
            ELSE FALSE
      [] s.kind = "AttributeSelector" ->
            IF n.node_type.kind = "Element"
            THEN /\ n.node_type.tag_name = s.tag_name
                 /\ s.attribute \in DOMAIN n.node_type.attributes
                 /\ n.node_type.attributes[s.attribute] = s.value
            ELSE FALSE
      [] OTHER -> FALSE

SimpleSelector_matches_class(s, n) ==
    CASE s.kind = "UniversalSelector" -> TRUE
      [] s.kind \in {"TypeSelector", "AttributeSelector"} ->
            IF n.node_type.kind = "Element"
            THEN n.node_type.tag_name = s.tag_name
            ELSE FALSE
      [] OTHER ->
            IF n.node_type.kind = "Element"
            THEN /\ "class" \in DOMAIN n.node_type.attributes
                 /\ n.node_type.attributes["class"] = s.class_name
            ELSE FALSE

\* The type arm comparing the text of a Text node with the tag name.
SimpleSelector_matches_text(s, n) ==
    CASE s.kind = "UniversalSelector" -> TRUE
      [] s.kind = "TypeSelector" ->
            IF n.node_type.kind = "Element"
            THEN n.node_type.tag_name = s.tag_name
            ELSE n.node_type.data = s.tag_name
      [] s.kind = "AttributeSelector" ->
            IF n.node_type.kind = "Element"
            THEN n.node_type.tag_name = s.tag_name
            ELSE FALSE
      [] OTHER -> FALSE

\* The universal arm restricted to elements.
SimpleSelector_matches_elements(s, n) ==
    CASE s.kind = "UniversalSelector" -> n.node_type.kind = "Element"
      [] s.kind \in {"TypeSelector", "AttributeSelector"} ->
            IF n.node_type.kind = "Element"
            THEN n.node_type.tag_name = s.tag_name
            ELSE FALSE
      [] OTHER -> FALSE

\* SimpleSelector::matches: the attribute arm binds op, attribute and value
\* and compares the tag name only; the catch-all arm (ClassSelector) is false.
SimpleSelector_matches(s, n) ==
    CASE s.kind = "UniversalSelector" -> TRUE
      [] s.kind = "TypeSelector" ->
            IF n.node_type.kind = "Element"
            THEN n.node_type.tag_name = s.tag_name
            ELSE FALSE
      [] s.kind = "AttributeSelector" ->
            IF n.node_type.kind = "Element"
            THEN n.node_type.tag_name = s.tag_name
            ELSE FALSE
      [] OTHER -> FALSE

\* Rule matching with all() in place of any().
Rule_matches_all(rule, n) ==
    \A i \in 1..Len(rule.selectors) : SimpleSelector_matches(rule.selectors[i], n)

\* Rule::matches: selectors.iter().any(|s| s.matches(n)).
Rule_matches(rule, n) ==
    \E i \in 1..Len(rule.selectors) : SimpleSelector_matches(rule.selectors[i], n)

(***************************************************************************)
(* style/style.rs: StyledNode and to_styled_node.                          *)
(***************************************************************************)
\* An insert that keeps the value of a key already present (first writer wins).
HashMap_insert_first(m, k, v) ==
    [x \in (DOMAIN m) \cup {k} |-> IF x \in DOMAIN m THEN m[x] ELSE v]

\* HashMap::insert: the key is added, or its value replaced.
HashMap_insert(m, k, v) ==
    [x \in (DOMAIN m) \cup {k} |-> IF x = k THEN v ELSE m[x]]

\* collect::<HashMap<_, _>>() of an iterator of pairs: inserts in order.
RECURSIVE HashMap_collect(_, _)
HashMap_collect(m, pairs) ==
    IF pairs = <<>> THEN m
    ELSE HashMap_collect(HashMap_insert(m, Head(pairs)[1], Head(pairs)[2]), Tail(pairs))

\* filter(|rule| rule.matches(node)).flat_map(declarations -> (name, value)).
MatchedDeclarations(n, sheet) ==
    Flatten([i \in 1..Len(sheet) |->
        IF Rule_matches(sheet[i], n)
        THEN [j \in 1..Len(sheet[i].declarations) |->
                 <<sheet[i].declarations[j].name, sheet[i].declarations[j].value>>]
        ELSE <<>>])

StyledNode(node_type, children, properties) ==
    [node_type |-> node_type, children |-> children, properties |-> properties]

\* Option<T>: None is <<>>, Some(v) is <<v>>; filter_map keeps the Some values.
None == <<>>
Some(v) == <<v>>

\* A resolver that gives no styled node to a node without properties.
RECURSIVE to_styled_node_styled_only(_, _)
to_styled_node_styled_only(n, sheet) ==
    LET properties == HashMap_collect(HashMap_new, MatchedDeclarations(n, sheet))
        children == Flatten([i \in 1..Len(n.children) |->
                                to_styled_node_styled_only(n.children[i], sheet)])
    IN  IF properties = HashMap_new THEN None
        ELSE Some(StyledNode(n.node_type, children, properties))

\* A resolver that collects the children from last to first.
RECURSIVE to_styled_node_reversed(_, _)
to_styled_node_reversed(n, sheet) ==
    LET properties == HashMap_collect(HashMap_new, MatchedDeclarations(n, sheet))
        children == Flatten([i \in 1..Len(n.children) |->
                                to_styled_node_reversed(
                                    n.children[Len(n.children) + 1 - i], sheet)])
    IN  Some(StyledNode(n.node_type, children, properties))

RECURSIVE to_styled_node(_, _)
to_styled_node(n, sheet) ==
    LET properties == HashMap_collect(HashMap_new, MatchedDeclarations(n, sheet))
        children == Flatten([i \in 1..Len(n.children) |->
                                to_styled_node(n.children[i], sheet)])
    IN  Some(StyledNode(n.node_type, children, properties))

(***************************************************************************)
(* html/html.rs: the markup parser.  The input is a sequence of characters *)
(* and a parser is an operator of the input and a position.  A result      *)
(* records what combine's ParseResult does: success or error (ok), and     *)
(* whether input was consumed (committed): PeekOk, CommitOk, PeekErr and   *)
(* CommitErr.  pos is the position of the unconsumed rest.                 *)
(***************************************************************************)
Letters ==
    {"a", "b", "c", "d", "e", "f", "g", "h", "i", "j", "k", "l", "m",
     "n", "o", "p", "q", "r", "s", "t", "u", "v", "w", "x", "y", "z"}
Whitespace == {" ", "\n"}
Punctuation ==
    {"<", ">", "/", "=", "\"", "!", "{", "}", ":", ";", ",", "*", ".", "[", "]", "~"}
Chars == Letters \cup Whitespace \cup Punctuation

TagMismatch == "tag name of open tag and close tag mismatched"
Unexpected == "unexpected parse"

Ok(committed, pos, value) ==
    [ok |-> TRUE, committed |-> committed, pos |-> pos, value |-> value, msg |-> ""]

Err(committed, pos, msg) ==
    [ok |-> FALSE, committed |-> committed, pos |-> pos, value |-> <<>>, msg |-> msg]

\* The start of a tuple of parsers: nothing consumed, no output yet.
Start(pos) == Ok(FALSE, pos, <<>>)

\* One more parser of a tuple (a, b, ...): r is the result of the parsers
\* before it and q the result of this one where they stopped.  The outputs
\* are collected in order; an error after input was consumed is committed.
Then(r, q) ==
    IF q.ok
    THEN Ok(r.committed \/ q.committed, q.pos, Append(r.value, q.value))
    ELSE Err(r.committed \/ q.committed, q.pos, q.msg)

\* attempt(p): an error of p is an error that consumed nothing.
attempt(r, pos) == IF r.ok THEN r ELSE Err(FALSE, pos, r.msg)

\* choice((a, b)): b is tried when a failed without consuming.
choice(a, b) == IF a.ok \/ a.committed THEN a ELSE b

\* satisfy(|c| c in set), char(c) being satisfy on {c}.
satisfy(in, pos, set) ==
    IF pos <= Len(in) /\ in[pos] \in set
    THEN Ok(TRUE, pos + 1, in[pos])
    ELSE Err(FALSE, pos, Unexpected)

\* many::<String, _, _>(satisfy(set)): the longest run of characters of set.
RECURSIVE many(_, _, _, _)
many(in, pos, set, acc) ==
    IF pos <= Len(in) /\ in[pos] \in set
    THEN many(in, pos + 1, set, acc \o in[pos])
    ELSE Ok(acc # "", pos, acc)

\* many1::<String, _, _>(satisfy(set)): as many, but at least one character.
many1_check(r, pos) == IF r.value = "" THEN Err(FALSE, pos, Unexpected) ELSE r

many1(in, pos, set) == many1_check(many(in, pos, set, ""), pos)

\* The parsers as members of a tuple, after the result r of the members
\* before them.
and_satisfy(r, in, set) == IF r.ok THEN Then(r, satisfy(in, r.pos, set)) ELSE r

and_many(r, in, set) == IF r.ok THEN Then(r, many(in, r.pos, set, "")) ELSE r

and_many1(r, in, set) == IF r.ok THEN Then(r, many1(in, r.pos, set)) ELSE r

\* text(): many1(satisfy(|c| c != '<')).map(Text::new).
text_map(r) == IF r.ok THEN Ok(r.committed, r.pos, Text_new(r.value)) ELSE r

text_any(in, pos) == text_map(many1(in, pos, Chars))

text(in, pos) == text_map(many1(in, pos, Chars \ {"<"}))

\* attribute(): (name, ws*, '=', ws*, '"' value '"').map(|v| (v.0, v.4)),
\* the quoted value being between('"', '"', many1(not '"')).
attribute_map(r) ==
    IF r.ok THEN Ok(r.committed, r.pos, <<r.value[1], r.value[6]>>) ELSE r

attribute(in, pos) ==
    attribute_map(
        and_satisfy(
            and_many1(
                and_satisfy(
                    and_many(
                        and_satisfy(
                            and_many(
                                and_many1(Start(pos), in, Letters),
                                in, Whitespace),
                            in, {"="}),
                        in, Whitespace),
                    in, {"\""}),
                in, Chars \ {"\""}),
            in, {"\""}))

and_attribute(r, in) == IF r.ok THEN Then(r, attribute(in, r.pos)) ELSE r

\* The repetition of sep_by: many((separator, attribute)) after the first
\* attribute; it ends at the first repetition that fails without consuming.
RECURSIVE sep_by_rest(_, _, _)
RECURSIVE sep_by_step(_, _, _, _)
sep_by_rest(in, pos, acc) ==
    sep_by_step(and_attribute(and_many(Start(pos), in, Whitespace), in), in, pos, acc)

sep_by_step(r, in, pos, acc) ==
    IF r.ok THEN sep_by_rest(in, r.pos, Append(acc, r.value[2]))
    ELSE IF r.committed THEN r
    ELSE Ok(TRUE, pos, acc)

\* sep_by(attribute(), many(space or newline)): no attribute at all gives
\* the empty list.
sep_by_first(first, in, pos) ==
    IF first.ok THEN sep_by_rest(in, first.pos, <<first.value>>)
    ELSE IF first.committed THEN first
    ELSE Ok(FALSE, pos, <<>>)

\* attributes(): the list collected into an AttrMap.
attributes_map_first(r) ==
    IF r.ok
    THEN Ok(r.committed, r.pos,
            HashMap_collect(HashMap_new,
                            [i \in 1..Len(r.value) |-> r.value[Len(r.value) + 1 - i]]))
    ELSE r

attributes_map(r) ==
    IF r.ok THEN Ok(r.committed, r.pos, HashMap_collect(HashMap_new, r.value)) ELSE r

attributes(in, pos) == attributes_map(sep_by_first(attribute(in, pos), in, pos))

and_attributes(r, in) == IF r.ok THEN Then(r, attributes(in, r.pos)) ELSE r

\* open_tag(): between('<', '>', (name, ws*, attributes).map(|v| (v.0, v.2))).
open_tag_map(r) ==
    IF r.ok THEN Ok(r.committed, r.pos, <<r.value[2], r.value[4]>>) ELSE r

open_tag(in, pos) ==
    open_tag_map(
        and_satisfy(
            and_attributes(
                and_many(
                    and_many1(
                        and_satisfy(Start(pos), in, {"<"}),
                        in, Letters),
                    in, Whitespace),
                in),
            in, {">"}))

\* close_tag(): between('<', '>', ('/', name).map(|v| v.1)).
close_tag_map(r) == IF r.ok THEN Ok(r.committed, r.pos, r.value[3]) ELSE r

close_tag(in, pos) ==
    close_tag_map(
        and_satisfy(
            and_many1(
                and_satisfy(
                    and_satisfy(Start(pos), in, {"<"}),
                    in, {"/"}),
                in, Letters),
            in, {">"}))

RECURSIVE element(_, _)
RECURSIVE many_nodes(_, _, _, _)
RECURSIVE many_nodes_step(_, _, _, _, _)

\* many(choice((attempt(element()), attempt(text())))): the repetition ends
\* at the first one that fails without consuming.
many_nodes(in, pos, acc, committed) ==
    many_nodes_step(
        choice(attempt(element(in, pos), pos), attempt(text(in, pos), pos)),
        in, pos, acc, committed)

many_nodes_step(r, in, pos, acc, committed) ==
    IF r.ok THEN many_nodes(in, r.pos, Append(acc, r.value), committed \/ r.committed)
    ELSE IF r.committed THEN r
    ELSE Ok(committed, pos, acc)

\* nodes_(), and the nodes parser that wraps it: attempt(many(...)).
nodes_(in, pos) == attempt(many_nodes(in, pos, <<>>, FALSE), pos)

and_open_tag(r, in) == IF r.ok THEN Then(r, open_tag(in, r.pos)) ELSE r

and_nodes(r, in) == IF r.ok THEN Then(r, nodes_(in, r.pos)) ELSE r

and_close_tag(r, in) == IF r.ok THEN Then(r, close_tag(in, r.pos)) ELSE r

\* The and_then of element(): the open and the close tag name must agree.
element_and_then(r) ==
    IF ~r.ok THEN r
    ELSE IF r.value[1][1] = r.value[3]
    THEN Ok(r.committed, r.pos, Element_new(r.value[1][1], r.value[1][2], r.value[2]))
    ELSE Err(r.committed, r.pos, TagMismatch)

\* element(): (open_tag(), nodes(), close_tag()).and_then(...).
element(in, pos) ==
    element_and_then(and_close_tag(and_nodes(and_open_tag(Start(pos), in), in), in))

(***************************************************************************)
(* css/css.rs: the stylesheet parser, built from the same combinators.     *)
(***************************************************************************)
InvalidOp == "invalid attribute selector op"

\* p.skip(q) as the tuple (p, q): the output of p is kept.
skip(r) == IF r.ok THEN Ok(r.committed, r.pos, r.value[1]) ELSE r

\* optional(p): None when p fails without consuming.
optional(r, pos) ==
    IF r.ok THEN Ok(r.committed, r.pos, Some(r.value))
    ELSE IF r.committed THEN r
    ELSE Ok(FALSE, pos, None)

\* char::string(s): the characters of s in turn, i - 1 of them matched so
\* far; a mismatch after the first character has consumed input.
RECURSIVE string(_, _, _, _)
string(in, pos, s, i) ==
    IF i > Len(s) THEN Ok(TRUE, pos, s)
    ELSE IF pos <= Len(in) /\ in[pos] = SubSeq(s, i, i)
    THEN string(in, pos + 1, s, i + 1)
    ELSE Err(i > 1, pos, Unexpected)

\* whitespaces(): many::<String, _, _>(space().or(newline())).
whitespaces(in, pos) == many(in, pos, Whitespace, "")

and_whitespaces(r, in) == IF r.ok THEN Then(r, whitespaces(in, r.pos)) ELSE r

\* css_value(): many1(letter()).map(CSSValue::Keyword).
css_value_map(r) == IF r.ok THEN Ok(r.committed, r.pos, Keyword(r.value)) ELSE r

css_value(in, pos) == css_value_map(many1(in, pos, Letters))

and_css_value(r, in) == IF r.ok THEN Then(r, css_value(in, r.pos)) ELSE r

\* declaration(): (name ws*, ':' ws*, css_value).
declaration_map(r) ==
    IF r.ok THEN Ok(r.committed, r.pos, Declaration(r.value[1], r.value[5])) ELSE r

declaration(in, pos) ==
    declaration_map(
        and_css_value(
            and_whitespaces(
                and_satisfy(
                    and_whitespaces(
                        and_many1(Start(pos), in, Letters),
                        in),
                    in, {":"}),
                in),
            in))

and_declaration(r, in) == IF r.ok THEN Then(r, declaration(in, r.pos)) ELSE r

\* The parser and the separator of declarations():
\* declaration().skip(whitespaces()) and char(';').skip(whitespaces()).
declarations_item(in, pos) == skip(and_whitespaces(and_declaration(Start(pos), in), in))

declarations_separator(in, pos) ==
    skip(and_whitespaces(and_satisfy(Start(pos), in, {";"}), in))

\* The repetition of sep_end_by: (separator, optional(declaration)) after
\* the first declaration; it ends where the separator fails without
\* consuming, or after a separator that no declaration follows.
RECURSIVE sep_end_by_rest(_, _, _)
RECURSIVE sep_end_by_separator(_, _, _, _)
RECURSIVE sep_end_by_item(_, _, _, _)
sep_end_by_rest(in, pos, acc) ==
    sep_end_by_separator(declarations_separator(in, pos), in, pos, acc)

sep_end_by_separator(sep, in, pos, acc) ==
    IF sep.ok THEN sep_end_by_item(declarations_item(in, sep.pos), in, sep.pos, acc)
    ELSE IF sep.committed THEN sep
    ELSE Ok(TRUE, pos, acc)

sep_end_by_item(item, in, pos, acc) ==
    IF item.ok THEN sep_end_by_rest(in, item.pos, Append(acc, item.value))
    ELSE IF item.committed THEN item
    ELSE Ok(TRUE, pos, acc)

sep_end_by_first(first, in, pos) ==
    IF first.ok THEN sep_end_by_rest(in, first.pos, <<first.value>>)
    ELSE IF first.committed THEN first
    ELSE Ok(FALSE, pos, <<>>)

\* declarations(): sep_end_by(declaration ws*, ';' ws*).
declarations(in, pos) == sep_end_by_first(declarations_item(in, pos), in, pos)

and_declarations(r, in) == IF r.ok THEN Then(r, declarations(in, r.pos)) ELSE r

\* simple_selector(): the universal selector '*'.
universal_selector_map(r) ==
    IF r.ok THEN Ok(r.committed, r.pos, UniversalSelector) ELSE r

universal_selector(in, pos) == universal_selector_map(satisfy(in, pos, {"*"}))

\* simple_selector(): the class selector ('.', many1(letter())).
class_selector_map(r) ==
    IF r.ok THEN Ok(r.committed, r.pos, ClassSelector(r.value[2])) ELSE r

class_selector(in, pos) ==
    class_selector_map(and_many1(and_satisfy(Start(pos), in, {"."}), in, Letters))

\* The operator of an attribute selector: choice((string("="), string("~="))).
attribute_op(in, pos) == choice(string(in, pos, "=", 1), string(in, pos, "~=", 1))

and_attribute_op(r, in) == IF r.ok THEN Then(r, attribute_op(in, r.pos)) ELSE r

\* The bracketed part: ('[' ws*, attribute, operator, value, ']'); the
\* outputs are '[', the whitespace, the attribute, the operator, the value
\* and ']'.
attribute_part(in, pos) ==
    and_satisfy(
        and_many1(
            and_attribute_op(
                and_many1(
                    and_whitespaces(
                        and_satisfy(Start(pos), in, {"["}),
                        in),
                    in, Letters),
                in),
            in, Letters),
        in, {"]"})

and_optional_attribute_part(r, in) ==
    IF r.ok THEN Then(r, optional(attribute_part(in, r.pos), r.pos)) ELSE r

\* The and_then of the type or attribute selector: the operator token is
\* turned into an AttributeSelectorOp, any other token is the error
\* "invalid attribute selector op".
type_or_attribute_selector_and_then(r) ==
    IF ~r.ok THEN r
    ELSE IF r.value[3] = None
    THEN Ok(r.committed, r.pos, TypeSelector(r.value[1]))
    ELSE IF r.value[3][1][4] = "="
    THEN Ok(r.committed, r.pos,
            AttributeSelector(r.value[1], "Eq", r.value[3][1][3], r.value[3][1][5]))
    ELSE IF r.value[3][1][4] = "~="
    THEN Ok(r.committed, r.pos,
            AttributeSelector(r.value[1], "Contain", r.value[3][1][3], r.value[3][1][5]))
    ELSE Err(r.committed, r.pos, InvalidOp)

\* (many1(letter()) ws*, optional(bracketed part)).and_then(...).
type_or_attribute_selector(in, pos) ==
    type_or_attribute_selector_and_then(
        and_optional_attribute_part(
            and_whitespaces(and_many1(Start(pos), in, Letters), in),
            in))

\* simple_selector(): choice((universal, class, type or attribute)).
simple_selector(in, pos) ==
    choice(universal_selector(in, pos),
           choice(class_selector(in, pos), type_or_attribute_selector(in, pos)))

and_simple_selector(r, in) == IF r.ok THEN Then(r, simple_selector(in, r.pos)) ELSE r

\* The parser of selectors(): simple_selector().skip(whitespaces()).
selectors_item(in, pos) == skip(and_whitespaces(and_simple_selector(Start(pos), in), in))

and_selectors_item(r, in) == IF r.ok THEN Then(r, selectors_item(in, r.pos)) ELSE r

\* The repetition of sep_by: many((',' ws*, selector)) after the first
\* selector.
RECURSIVE selectors_rest(_, _, _)
RECURSIVE selectors_step(_, _, _, _)
selectors_rest(in, pos, acc) ==
    selectors_step(
        and_selectors_item(
            and_whitespaces(and_satisfy(Start(pos), in, {","}), in),
            in),
        in, pos, acc)

selectors_step(r, in, pos, acc) ==
    IF r.ok THEN selectors_rest(in, r.pos, Append(acc, r.value[3]))
    ELSE IF r.committed THEN r
    ELSE Ok(TRUE, pos, acc)

selectors_first(first, in, pos) ==
    IF first.ok THEN selectors_rest(in, first.pos, <<first.value>>)
    ELSE IF first.committed THEN first
    ELSE Ok(FALSE, pos, <<>>)

\* selectors(): sep_by(simple_selector ws*, ',' ws*); no selector at all
\* gives the empty list.
selectors(in, pos) == selectors_first(selectors_item(in, pos), in, pos)

and_selectors(r, in) == IF r.ok THEN Then(r, selectors(in, r.pos)) ELSE r

\* rule(): (selectors ws*, '{' ws*, declarations ws*, '}').
rule_map(r) ==
    IF r.ok THEN Ok(r.committed, r.pos, Rule(r.value[1], r.value[5])) ELSE r

rule(in, pos) ==
    rule_map(
        and_satisfy(
            and_whitespaces(
                and_declarations(
                    and_whitespaces(
                        and_satisfy(
                            and_whitespaces(and_selectors(Start(pos), in), in),
                            in, {"{"}),
                        in),
                    in),
                in),
            in, {"}"}))

and_rule(r, in) == IF r.ok THEN Then(r, rule(in, r.pos)) ELSE r

\* many(rule().skip(whitespaces())): the repetition ends at the first rule
\* that fails without consuming; a rule that fails after consuming fails
\* the repetition.
RECURSIVE many_rules(_, _, _)
RECURSIVE many_rules_step(_, _, _, _)
many_rules(in, pos, acc) ==
    many_rules_step(skip(and_whitespaces(and_rule(Start(pos), in), in)), in, pos, acc)

many_rules_step_prepend(r, in, pos, acc) ==
    IF r.ok THEN many_rules(in, r.pos, <<r.value>> \o acc)
    ELSE IF r.committed THEN r
    ELSE Ok(TRUE, pos, acc)

many_rules_step(r, in, pos, acc) ==
    IF r.ok THEN many_rules(in, r.pos, Append(acc, r.value))
    ELSE IF r.committed THEN r
    ELSE Ok(TRUE, pos, acc)

and_many_rules(r, in) == IF r.ok THEN Then(r, many_rules(in, r.pos, <<>>)) ELSE r

\* rules(): (whitespaces(), many(rule ws*)).map(|(_, rules)| rules).
rules_map(r) == IF r.ok THEN Ok(r.committed, r.pos, r.value[2]) ELSE r

rules(in, pos) == rules_map(and_many_rules(and_whitespaces(Start(pos), in), in))

\* One iteration of the repetitions: the item parser of the many(...) of
\* nodes_() and of the many(...) of rules(), applied at pos.
node_item_look_ahead(in, pos) ==
    IF element(in, pos).ok THEN Ok(FALSE, pos, element(in, pos).value)
    ELSE attempt(text(in, pos), pos)

node_item(in, pos) ==
    choice(attempt(element(in, pos), pos), attempt(text(in, pos), pos))

rule_item(in, pos) == skip(and_whitespaces(and_rule(Start(pos), in), in))

\* The loop of many(...) after an iteration with result r: a success goes
\* on from the position it reached, a failure without consumption ends the
\* repetition, a failure after consumption fails it.
many_iteration(p, r) ==
    IF r.ok
    THEN [p EXCEPT !.prev = p.pos, !.pos = r.pos, !.last = Some(r.value)]
    ELSE IF r.committed
    THEN [p EXCEPT !.status = "failed", !.prev = p.pos, !.last = None]
    ELSE [p EXCEPT !.status = "done", !.prev = p.pos, !.last = None]

\* css::parse: rules().parse(raw).map(|(rules, _)| Stylesheet::new(rules))
\* .unwrap().  The unconsumed rest is dropped; an error is a panic.
css_parse_unwrap(r) ==
    IF r.ok THEN [panic |-> FALSE, stylesheet |-> r.value, msg |-> ""]
    ELSE [panic |-> TRUE, stylesheet |-> <<>>, msg |-> r.msg]

css_parse(raw) == css_parse_unwrap(rules(raw, 1))

(***************************************************************************)
(* renderer/renderer.rs: the stylesheet text of a document.                *)
(***************************************************************************)
DEFAULT_STYLESHEET ==
    "\nscript, style {\n    display: none;\n}\np, div {\n    display: block;\n}\n"

\* [String]::join(sep).
RECURSIVE join(_, _)
join(ss, sep) ==
    IF ss = <<>> THEN ""
    ELSE IF Len(ss) = 1 THEN ss[1]
    ELSE ss[1] \o sep \o join(Tail(ss), sep)

\* Node::inner_text: the data of the Text children and the inner text of
\* the other children, in order, joined by "".
RECURSIVE inner_text(_)
inner_text(n) ==
    join([i \in 1..Len(n.children) |->
             IF n.children[i].node_type.kind = "Text"
             THEN n.children[i].node_type.data
             ELSE inner_text(n.children[i])],
         "")

\* collect_tag_inners: the inner text of an element of the tag, otherwise
\* what the children give, flattened in order.
RECURSIVE collect_tag_inners(_, _)
RECURSIVE collect_tag_inners_all(_, _)
collect_tag_inners_all(n, tag_name) ==
    (IF n.node_type.kind = "Element" /\ n.node_type.tag_name = tag_name
     THEN <<inner_text(n)>> ELSE <<>>)
        \o Flatten([i \in 1..Len(n.children) |->
                       collect_tag_inners_all(n.children[i], tag_name)])

collect_tag_inners(n, tag_name) ==
    IF n.node_type.kind = "Element" /\ n.node_type.tag_name = tag_name
    THEN <<inner_text(n)>>
    ELSE Flatten([i \in 1..Len(n.children) |->
                     collect_tag_inners(n.children[i], tag_name)])

\* The text Renderer::new and rerender give to css::parse:
\* format!("{}\n{}", DEFAULT_STYLESHEET, collect_tag_inners(..).join("\n")).
stylesheet_text(document_element) ==
    DEFAULT_STYLESHEET \o "\n" \o join(collect_tag_inners(document_element, "style"), "\n")

(***************************************************************************)
(* The layout builder, to_layout_box of layout::layout.  A LayoutBox is a  *)
(* box type and children; BlockBox and InlineBox carry the node type and   *)
(* the properties of the styled node.  The result is None for a styled     *)
(* node that is omitted from the layout tree.                              *)
(***************************************************************************)
BoxProps(node_type, properties) == [node_type |-> node_type, properties |-> properties]

BlockBox(props) == [kind |-> "BlockBox", props |-> props]

InlineBox(props) == [kind |-> "InlineBox", props |-> props]

LayoutBox(box_type, children) == [box_type |-> box_type, children |-> children]

\* The display of a styled node: its display keyword when that is none,
\* block or inline, block otherwise.
display_or_none(sn) ==
    IF "display" \in DOMAIN sn.properties
    THEN IF sn.properties["display"].keyword \in {"block", "inline"}
         THEN sn.properties["display"].keyword
         ELSE "none"
    ELSE "block"

display(sn) ==
    IF "display" \in DOMAIN sn.properties
    THEN IF sn.properties["display"].keyword \in {"none", "block", "inline"}
         THEN sn.properties["display"].keyword
         ELSE "block"
    ELSE "block"

RECURSIVE to_layout_box(_)
RECURSIVE to_layout_box_children(_)
\* The boxes of the children, in order; an omitted child leaves no box.
to_layout_box_children(sn) ==
    Flatten([i \in 1..Len(sn.children) |-> to_layout_box(sn.children[i])])

to_layout_box_hoist(sn) ==
    IF display(sn) = "none" THEN to_layout_box_children(sn)
    ELSE Some(LayoutBox(
             IF display(sn) = "inline"
             THEN InlineBox(BoxProps(sn.node_type, sn.properties))
             ELSE BlockBox(BoxProps(sn.node_type, sn.properties)),
             to_layout_box_children(sn)))

to_layout_box(sn) ==
    IF display(sn) = "none" THEN None
    ELSE Some(LayoutBox(
             IF display(sn) = "inline"
             THEN InlineBox(BoxProps(sn.node_type, sn.properties))
             ELSE BlockBox(BoxProps(sn.node_type, sn.properties)),
             to_layout_box_children(sn)))

(***************************************************************************)
(* render/render.rs: the view of a layout tree.                            *)
(***************************************************************************)
DummyView == [kind |-> "DummyView"]

TextView(content) == [kind |-> "TextView", content |-> content]

Panel(orientation, title, children) ==
    [kind |-> "Panel", orientation |-> orientation, title |-> title,
     children |-> children]

\* str::replace("\n", "").
RECURSIVE replace_newlines(_)
replace_newlines(s) ==
    IF s = "" THEN ""
    ELSE (IF Head(s) = "\n" THEN "" ELSE Head(s)) \o replace_newlines(Tail(s))

\* str::trim: without the whitespace at its start and at its end.
RECURSIVE trim_start(_)
trim_start(s) ==
    IF s = "" THEN ""
    ELSE IF Head(s) \in Whitespace THEN trim_start(Tail(s))
    ELSE s

RECURSIVE trim_end(_)
trim_end(s) ==
    IF s = "" THEN ""
    ELSE IF SubSeq(s, Len(s), Len(s)) \in Whitespace
    THEN trim_end(SubSeq(s, 1, Len(s) - 1))
    ELSE s

trim(s) == trim_end(trim_start(s))

\* The view of a text: the trimmed text, or a dummy when nothing is left.
text_view(text_to_display) ==
    IF text_to_display # "" THEN TextView(text_to_display) ELSE DummyView

\* to_element_container: a titled vertical panel of the children's views
\* for the box of an element, the text view for the box of a text, a
\* horizontal panel for an anonymous box.
RECURSIVE to_element_container(_)
to_element_container(layout_box) ==
    IF layout_box.box_type.kind = "AnonymousBox"
    THEN Panel("horizontal", "",
               [i \in 1..Len(layout_box.children) |->
                   to_element_container(layout_box.children[i])])
    ELSE IF layout_box.box_type.props.node_type.kind = "Element"
    THEN Panel("vertical", layout_box.box_type.props.node_type.tag_name,
               [i \in 1..Len(layout_box.children) |->
                   to_element_container(layout_box.children[i])])
    ELSE text_view(trim(replace_newlines(layout_box.box_type.props.node_type.data)))

(***************************************************************************)
(* Input sets.                                                             *)
(***************************************************************************)
ElementsOver(tags, attrmaps) ==
    {Element_new(t, a, <<>>) : t \in tags, a \in attrmaps}

TextsOver(datas) == {Text_new(d) : d \in datas}

\* Matcher inputs: one node with any attribute mapping, one rule with any
\* selector list.
MatchTags == {"p", "div"}
MatchAttrNames == {"id", "class"}
MatchValues == {"test", "hello"}
MatchTexts == {"hi", "p"}

MatchNodes ==
    ElementsOver(MatchTags, AttrMapsOver(MatchAttrNames, MatchValues))
        \cup TextsOver(MatchTexts)

MatchSelectors ==
    {UniversalSelector}
        \cup {TypeSelector(t) : t \in MatchTags}
        \cup {ClassSelector(c) : c \in MatchValues}
        \cup {AttributeSelector(t, op, a, v) :
                 t \in MatchTags, op \in AttributeSelectorOp,
                 a \in MatchAttrNames, v \in MatchValues}

MatchDeclarations == <<Declaration("testname", Keyword("testvalue"))>>

MatchStylesheets ==
    {<<Rule(s, MatchDeclarations)>> : s \in SeqsOf(MatchSelectors, 0, MaxSelectors)}

\* Cascade inputs: one node, a stylesheet of several rules of one selector.
CascadeNodes ==
    {Element_new("p", HashMap_new, <<>>), Element_new("div", HashMap_new, <<>>),
     Text_new("hi")}

CascadeSelectors ==
    {UniversalSelector, TypeSelector("p"), ClassSelector("test"),
     AttributeSelector("p", "Eq", "id", "test")}

CascadeDeclarations ==
    {Declaration("display", Keyword("block")),
     Declaration("display", Keyword("inline")),
     Declaration("testname", Keyword("testvalue"))}

CascadeRules ==
    {Rule(<<s>>, d) : s \in CascadeSelectors,
                      d \in SeqsOf(CascadeDeclarations, 0, MaxDecls)}

CascadeStylesheets == SeqsOf(CascadeRules, 0, MaxRules)

\* Tree inputs: every tree of div elements and text leaves up to MaxDepth
\* levels and MaxChildren children per element.
RECURSIVE Trees(_)
Trees(depth) ==
    IF depth = 0 THEN {}
    ELSE TextsOver({"hi"})
            \cup {Element_new("div", HashMap_new, c) :
                     c \in SeqsOf(Trees(depth - 1), 0, MaxChildren)}

TreeRules ==
    {Rule(<<s>>, <<Declaration("display", Keyword("block"))>>) :
        s \in {UniversalSelector, TypeSelector("div"), ClassSelector("test")}}

TreeStylesheets == SeqsOf(TreeRules, 0, MaxRules)

(***************************************************************************)
(* State machine of the matcher and the resolver.                          *)
(***************************************************************************)
NoMatch == [rule |-> FALSE, selectors |-> <<>>]

\* The renderer and its collaborator at rest, for the specifications that
\* do not run them.
RendererIdle ==
    /\ source = <<>>
    /\ mutex = "free"
    /\ pc = [renderer |-> "idle", script |-> "idle"]
    /\ view = DummyView

StyleIdle ==
    /\ matched = NoMatch
    /\ styled = None
    /\ done = {}
    /\ input = <<>>
    /\ parsed = [parser |-> "none"]
    /\ css = <<>>
    /\ layout = None
    /\ RendererIdle

InitMatch ==
    /\ node \in MatchNodes
    /\ stylesheet \in MatchStylesheets
    /\ StyleIdle

InitCascade ==
    /\ node \in CascadeNodes
    /\ stylesheet \in CascadeStylesheets
    /\ StyleIdle

InitTree ==
    /\ node \in Trees(MaxDepth)
    /\ stylesheet \in TreeStylesheets
    /\ StyleIdle

\* Rule::matches applied to the first rule and the node, with the result of
\* SimpleSelector::matches for each of its selectors.
Match ==
    /\ "match" \notin done
    /\ Len(stylesheet) > 0
    /\ matched' =
          [rule |-> Rule_matches(stylesheet[1], node),
           selectors |-> [j \in 1..Len(stylesheet[1].selectors) |->
                             SimpleSelector_matches(stylesheet[1].selectors[j], node)]]
    /\ done' = done \cup {"match"}
    /\ UNCHANGED <<node, stylesheet, styled, input, parsed, css, layout, rendererVars>>

\* to_styled_node applied to the node and the stylesheet.
Resolve ==
    /\ "resolve" \notin done
    /\ styled' = to_styled_node(node, stylesheet)
    /\ done' = done \cup {"resolve"}
    /\ UNCHANGED <<node, stylesheet, matched, input, parsed, css, layout, rendererVars>>

NextStyle == Match \/ Resolve

SpecMatch == InitMatch /\ [][NextStyle]_vars

SpecCascade == InitCascade /\ [][NextStyle]_vars

SpecTree == InitTree /\ [][NextStyle]_vars

(***************************************************************************)
(* State machine of the markup parser: the input is a concatenation of at  *)
(* most MaxPieces pieces of markup.                                        *)
(***************************************************************************)
Pieces ==
    {<<"<", "a", ">">>, <<"<", "b", ">">>,
     <<"<", "/", "a", ">">>, <<"<", "/", "b", ">">>,
     <<"<", "a", " ", "b", "=", "\"", "!", "\"", ">">>,
     <<"a", "!">>, <<"<">>}

Inputs == {Flatten(ps) : ps \in SeqsOf(Pieces, 0, MaxPieces)}

NotParsed == [parser |-> "none", result |-> Ok(FALSE, 1, <<>>)]

InitHtml ==
    /\ input \in Inputs
    /\ parsed = NotParsed
    /\ node = Text_new("")
    /\ stylesheet = <<>>
    /\ matched = NoMatch
    /\ styled = None
    /\ done = {}
    /\ css = <<>>
    /\ layout = None
    /\ RendererIdle

\* element() applied to the input.
ParseElement ==
    /\ parsed = NotParsed
    /\ parsed' = [parser |-> "element", result |-> element(input, 1)]
    /\ UNCHANGED <<node, stylesheet, matched, styled, done, input, css, layout, rendererVars>>

\* nodes_() applied to the input.
ParseNodes ==
    /\ parsed = NotParsed
    /\ parsed' = [parser |-> "nodes", result |-> nodes_(input, 1)]
    /\ UNCHANGED <<node, stylesheet, matched, styled, done, input, css, layout, rendererVars>>

\* text() applied to the input.
ParseText ==
    /\ parsed = NotParsed
    /\ parsed' = [parser |-> "text", result |-> text(input, 1)]
    /\ UNCHANGED <<node, stylesheet, matched, styled, done, input, css, layout, rendererVars>>

NextHtml == ParseElement \/ ParseNodes \/ ParseText

SpecHtml == InitHtml /\ [][NextHtml]_vars

(***************************************************************************)
(* State machine of the attribute parsers.  The text is written from a     *)
(* list of attributes (kept in source, with the separator written between  *)
(* two of them): name="value", at most MaxAttrs times.                     *)
(***************************************************************************)
\* The characters of a string.
chars(s) == [i \in 1..Len(s) |-> SubSeq(s, i, i)]

AttrPairs == {<<n, v>> : n \in {"a", "c"}, v \in {"b", "d"}}

AttrSeparators == {"", " ", "\n "}

AttributesText(attrs, separator) ==
    join([i \in 1..Len(attrs) |-> attrs[i][1] \o "=\"" \o attrs[i][2] \o "\""],
         separator)

InitAttributes ==
    /\ source \in [attrs : SeqsOf(AttrPairs, 0, MaxAttrs), separator : AttrSeparators]
    /\ input = chars(AttributesText(source.attrs, source.separator))
    /\ parsed = NotParsed
    /\ node = Text_new("")
    /\ stylesheet = <<>>
    /\ matched = NoMatch
    /\ styled = None
    /\ done = {}
    /\ css = <<>>
    /\ layout = None
    /\ mutex = "free"
    /\ pc = [renderer |-> "idle", script |-> "idle"]
    /\ view = DummyView

\* attributes() applied to the text.
ParseAttributes ==
    /\ parsed = NotParsed
    /\ parsed' = [parser |-> "attributes", result |-> attributes(input, 1)]
    /\ UNCHANGED <<node, stylesheet, matched, styled, done, input, css, layout, rendererVars>>

\* open_tag() applied to the tag <p ...> of these attributes.
ParseOpenTag ==
    /\ parsed = NotParsed
    /\ parsed' = [parser |-> "open_tag",
                  result |-> open_tag(chars("<p ") \o input \o chars(">"), 1)]
    /\ UNCHANGED <<node, stylesheet, matched, styled, done, input, css, layout, rendererVars>>

\* element() applied to the element <p ...></p> of these attributes.
ParseTagElement ==
    /\ parsed = NotParsed
    /\ parsed' = [parser |-> "tag_element",
                  result |-> element(chars("<p ") \o input \o chars("></p>"), 1)]
    /\ UNCHANGED <<node, stylesheet, matched, styled, done, input, css, layout, rendererVars>>

NextAttributes == ParseAttributes \/ ParseOpenTag \/ ParseTagElement

SpecAttributes == InitAttributes /\ [][NextAttributes]_vars

(***************************************************************************)
(* State machine of the stylesheet parser.  The text is written from a     *)
(* rule list (kept in stylesheet) with whitespace before, between and      *)
(* after the rules, followed by a tail: nothing, or text that is not a     *)
(* rule, an unterminated rule, a rule with a bad attribute operator, or a  *)
(* block with no selector.                                                 *)
(***************************************************************************)
SelectorText(s) ==
    IF s.kind = "UniversalSelector" THEN "*"
    ELSE IF s.kind = "ClassSelector" THEN "." \o s.class_name
    ELSE IF s.kind = "TypeSelector" THEN s.tag_name
    ELSE s.tag_name \o " [" \o s.attribute
            \o (IF s.op = "Eq" THEN "=" ELSE "~=") \o s.value \o "]"

RECURSIVE SelectorsText(_)
SelectorsText(ss) ==
    IF Len(ss) = 1 THEN SelectorText(ss[1])
    ELSE SelectorText(ss[1]) \o ", " \o SelectorsText(Tail(ss))

RECURSIVE DeclarationsText(_)
DeclarationsText(ds) ==
    IF ds = <<>> THEN ""
    ELSE ds[1].name \o ": " \o ds[1].value.keyword \o "; " \o DeclarationsText(Tail(ds))

RuleText(r) == SelectorsText(r.selectors) \o " { " \o DeclarationsText(r.declarations) \o "}"

RECURSIVE RulesText(_, _)
RulesText(sheet, between) ==
    IF sheet = <<>> THEN ""
    ELSE IF Len(sheet) = 1 THEN RuleText(sheet[1])
    ELSE RuleText(sheet[1]) \o between \o RulesText(Tail(sheet), between)

\* The text of a rule list with the whitespace sp = <<before, between,
\* after>> around its rules.
StylesheetText(sheet, sp) == sp[1] \o RulesText(sheet, sp[2]) \o sp[3]

Spacings == {"", " ", "\n"}

CssRules ==
    {Rule(<<TypeSelector("p")>>, <<Declaration("display", Keyword("block"))>>),
     Rule(<<TypeSelector("div"), TypeSelector("p")>>,
          <<Declaration("display", Keyword("none")), Declaration("aa", Keyword("bb"))>>),
     Rule(<<UniversalSelector, ClassSelector("x")>>, <<>>),
     Rule(<<AttributeSelector("test", "Eq", "foo", "bar"),
            AttributeSelector("testtest", "Contain", "piyo", "guoo")>>,
          <<Declaration("display", Keyword("block"))>>),
     Rule(<<TypeSelector("p")>>, <<>>)}

CssStylesheets == SeqsOf(CssRules, 0, MaxRules)

Tails == {"", "}", "!", "q { cc: dd", "p[a!b]{}", "p[a~b]{}", "{ display: block; }"}

InitCss ==
    /\ stylesheet \in CssStylesheets
    /\ \E sp \in Spacings \X Spacings \X Spacings : \E tail \in Tails :
          css = chars(StylesheetText(stylesheet, sp) \o tail)
    /\ parsed = NotParsed
    /\ node = Text_new("")
    /\ matched = NoMatch
    /\ styled = None
    /\ done = {}
    /\ input = <<>>
    /\ layout = None
    /\ RendererIdle

\* css::parse applied to the text.
ParseCss ==
    /\ parsed = NotParsed
    /\ parsed' = [parser |-> "css", result |-> css_parse(css)]
    /\ UNCHANGED <<node, stylesheet, matched, styled, done, input, css, layout, rendererVars>>

\* simple_selector() applied to the text.
ParseSimpleSelector ==
    /\ parsed = NotParsed
    /\ parsed' = [parser |-> "simple_selector", result |-> simple_selector(css, 1)]
    /\ UNCHANGED <<node, stylesheet, matched, styled, done, input, css, layout, rendererVars>>

NextCss == ParseCss \/ ParseSimpleSelector

SpecCss == InitCss /\ [][NextCss]_vars

(***************************************************************************)
(* State machine of the two repetitions, one iteration at a time: the      *)
(* many(...) of nodes_() on a markup input, and rules() on a stylesheet    *)
(* text (the leading whitespaces(), then its many(...)).  parsed holds the *)
(* loop: its position, the position before the last iteration, the output *)
(* of the last iteration; and items, the result of the item parser at each *)
(* position of the text, which an iteration looks up at its position.      *)
(***************************************************************************)
StepPieces == {"<a>", "</a>", "a!", "<"}

StepInputs == {chars(join(ps, "")) : ps \in SeqsOf(StepPieces, 0, MaxPieces)}

StepRules ==
    {Rule(<<TypeSelector("div"), TypeSelector("p")>>,
          <<Declaration("display", Keyword("none")), Declaration("aa", Keyword("bb"))>>),
     Rule(<<UniversalSelector, ClassSelector("x")>>, <<>>),
     Rule(<<AttributeSelector("test", "Eq", "foo", "bar")>>,
          <<Declaration("display", Keyword("block"))>>)}

StepSpacings == {<<"", "", "">>, <<"\n", " ", "\n">>}

InitSteps ==
    /\ \/ /\ input \in StepInputs
          /\ css = <<>>
          /\ stylesheet = <<>>
          /\ parsed = [parser |-> "many_nodes", status |-> "running",
                       pos |-> 1, prev |-> 1, last |-> None,
                       items |-> [pos \in 1..(Len(input) + 1) |-> node_item(input, pos)]]
       \/ /\ input = <<>>
          /\ stylesheet \in SeqsOf(StepRules, 0, MaxRules)
          /\ \E sp \in StepSpacings : \E tail \in Tails :
                css = chars(StylesheetText(stylesheet, sp) \o tail)
          /\ parsed = [parser |-> "many_rules", status |-> "start",
                       pos |-> 1, prev |-> 1, last |-> None,
                       items |-> [pos \in 1..(Len(css) + 1) |-> rule_item(css, pos)]]
    /\ node = Text_new("")
    /\ matched = NoMatch
    /\ styled = None
    /\ done = {}
    /\ layout = None
    /\ RendererIdle

\* One iteration of many(choice((attempt(element()), attempt(text())))).
StepNode ==
    /\ parsed.parser = "many_nodes"
    /\ parsed.status = "running"
    /\ parsed' = many_iteration(parsed, parsed.items[parsed.pos])
    /\ UNCHANGED <<node, stylesheet, matched, styled, done, input, css, layout, rendererVars>>

\* The whitespaces() at the head of rules().
StartRules ==
    /\ parsed.parser = "many_rules"
    /\ parsed.status = "start"
    /\ parsed' = [parsed EXCEPT !.status = "running",
                                !.pos = whitespaces(css, parsed.pos).pos,
                                !.prev = parsed.pos]
    /\ UNCHANGED <<node, stylesheet, matched, styled, done, input, css, layout, rendererVars>>

\* One iteration of many(rule().skip(whitespaces())).
StepRule ==
    /\ parsed.parser = "many_rules"
    /\ parsed.status = "running"
    /\ parsed' = many_iteration(parsed, parsed.items[parsed.pos])
    /\ UNCHANGED <<node, stylesheet, matched, styled, done, input, css, layout, rendererVars>>

NextSteps == StepNode \/ StartRules \/ StepRule

SpecSteps == InitSteps /\ [][NextSteps]_vars

\* The parser runs its loop to the end: an iteration that can be taken is
\* taken.
SpecStepsFair == SpecSteps /\ WF_vars(NextSteps)

(***************************************************************************)
(* State machine of the resolver followed by the layout builder.           *)
(***************************************************************************)
LayoutLeaves ==
    {Text_new("hi"), Element_new("div", HashMap_new, <<>>),
     Element_new("p", HashMap_new, <<>>)}

LayoutSubtrees ==
    LayoutLeaves \cup
    {Element_new(t, HashMap_new, c) :
        t \in {"div", "p"}, c \in SeqsOf(LayoutLeaves, 1, MaxChildren)}

LayoutTrees ==
    LayoutSubtrees \cup
    {Element_new(t, HashMap_new, <<c>>) : t \in {"div", "p"}, c \in LayoutSubtrees}

LayoutRules ==
    {Rule(<<sel>>, <<Declaration("display", Keyword(d))>>) :
        sel \in {UniversalSelector, TypeSelector("div"), TypeSelector("p")},
        d \in {"none", "block", "inline", "flex"}}

LayoutStylesheets == SeqsOf(LayoutRules, 0, MaxRules)

InitLayout ==
    /\ node \in LayoutTrees
    /\ stylesheet \in LayoutStylesheets
    /\ StyleIdle

\* to_layout_box applied to the styled tree.
Layout ==
    /\ "resolve" \in done
    /\ "layout" \notin done
    /\ Len(styled) = 1
    /\ layout' = to_layout_box(styled[1])
    /\ done' = done \cup {"layout"}
    /\ UNCHANGED <<node, stylesheet, matched, styled, input, parsed, css, rendererVars>>

NextLayout == Resolve \/ Layout

SpecLayout == InitLayout /\ [][NextLayout]_vars

(***************************************************************************)
(* State machine of the whole pipeline: the markup is parsed into the      *)
(* document element, the stylesheet text is the one given or the one       *)
(* Renderer::new assembles from the document, and the stylesheet parser,   *)
(* the resolver and the layout builder follow.                             *)
(***************************************************************************)
PipelineMarkups ==
    {"<div class=\"x\"><p>hi</p></div>",
     "<p>hi</p>",
     "<div><p>hi</p><script>x</script></div>",
     "<div><style>p { display: inline; }</style><p>hi</p></div>",
     "<div><style>p { display: none; }</style><p><style>div { display: inline; }</style>hi</p></div>",
     "<div><style>p { display: inline; }<style>div { display: none; }</style></style><p>hi</p></div>",
     "<div><style><p>div { display: none; }</p></style></div>",
     "<style>p { display: inline; }</style>",
     "<div><p>hi</div>"}

PipelineStylesheets ==
    {"", "div, p { display: block; }", "div { display: none; } p { display: block; }",
     "p { display: flex; }", "* { display: inline; }", "p {"}

InitPipeline ==
    /\ input \in {chars(m) : m \in PipelineMarkups}
    /\ css \in {chars(t) : t \in PipelineStylesheets}
    /\ parsed = NotParsed
    /\ node = Text_new("")
    /\ stylesheet = <<>>
    /\ matched = NoMatch
    /\ styled = None
    /\ done = {}
    /\ layout = None
    /\ RendererIdle

\* The markup parsed into the document element by element().
ParseDocument ==
    /\ parsed = NotParsed
    /\ parsed' = [parser |-> "element", result |-> element(input, 1)]
    /\ IF element(input, 1).ok
       THEN node' = element(input, 1).value /\ done' = {"document"}
       ELSE UNCHANGED <<node, done>>
    /\ UNCHANGED <<stylesheet, matched, styled, input, css, layout, rendererVars>>

\* Renderer::new, its first statement: the stylesheet text of the document.
AssembleStylesheet ==
    /\ done = {"document"}
    /\ css' = chars(stylesheet_text(node))
    /\ done' = {"document", "assemble"}
    /\ UNCHANGED <<node, stylesheet, matched, styled, input, parsed, layout, rendererVars>>

\* css::parse applied to the stylesheet text; a parse error is a panic.
ParseStylesheet ==
    /\ "document" \in done
    /\ done \cap {"stylesheet", "panic"} = {}
    /\ IF css_parse(css).panic
       THEN done' = done \cup {"panic"} /\ UNCHANGED stylesheet
       ELSE done' = done \cup {"stylesheet"} /\ stylesheet' = css_parse(css).stylesheet
    /\ UNCHANGED <<node, matched, styled, input, parsed, css, layout, rendererVars>>

\* to_styled_node applied to the document element and the parsed stylesheet.
ResolveDocument == "stylesheet" \in done /\ Resolve

NextPipeline ==
    ParseDocument \/ AssembleStylesheet \/ ParseStylesheet \/ ResolveDocument \/ Layout

SpecPipeline == InitPipeline /\ [][NextPipeline]_vars

(***************************************************************************)
(* State machine of renderer/renderer.rs.  node is the document element    *)
(* behind the mutex that the Renderer and the script runtime share; mutex  *)
(* is its holder; pc is the position of the renderer (in rerender or in    *)
(* execute_inline_scripts) and of the script collaborator; css,            *)
(* stylesheet, styled and layout are the locals of a rerender pass, input  *)
(* is the script text of execute_inline_scripts, view is self.view.  The   *)
(* script collaborator reads and mutates the tree only through the mutex.  *)
(***************************************************************************)
Paragraph(data) == Element_new("p", HashMap_new, <<Text_new(data)>>)

Style(data) == Element_new("style", HashMap_new, <<Text_new(data)>>)

Script(data) == Element_new("script", HashMap_new, <<Text_new(data)>>)

Body(children) == Element_new("body", HashMap_new, children)

\* The documents the renderer is constructed with.
InitialDocuments ==
    {Body(<<Paragraph("hi")>>),
     Body(<<Paragraph(" not loaded\n"), Script("x")>>)}

\* The documents a script makes of them.
Documents ==
    InitialDocuments \cup
    {Body(<<Paragraph("loaded"), Script("x")>>),
     Body(<<Style("p { display: none; }"), Paragraph("hi")>>),
     Body(<<Style("p { display: inline; }"), Paragraph("hi"), Script("x")>>),
     Body(<<Style("p {"), Paragraph("hi")>>)}

\* The view Renderer::new and rerender make of a document element.
view_of(document_element) ==
    to_element_container(
        to_layout_box(
            to_styled_node(document_element,
                           css_parse(chars(stylesheet_text(document_element))).stylesheet)[1])[1])

InitRenderer ==
    /\ node \in InitialDocuments
    /\ view = view_of(node)
    /\ mutex = "free"
    /\ pc = [renderer |-> "idle", script |-> "idle"]
    /\ css = <<>>
    /\ stylesheet = <<>>
    /\ styled = None
    /\ layout = None
    /\ input = <<>>
    /\ source = <<>>
    /\ parsed = NotParsed
    /\ matched = NoMatch
    /\ done = {}

\* rerender, line 74: self.document_element.lock().unwrap().
RerenderSkipLock ==
    /\ pc.renderer = "idle"
    /\ mutex # "poisoned"
    /\ pc' = [pc EXCEPT !.renderer = "rerender_locked"]
    /\ UNCHANGED <<node, stylesheet, matched, styled, done, input, parsed, css, layout,
                   source, mutex, view>>

RerenderLock ==
    /\ pc.renderer = "idle"
    /\ mutex = "free"
    /\ mutex' = "renderer"
    /\ pc' = [pc EXCEPT !.renderer = "rerender_locked"]
    /\ UNCHANGED <<node, stylesheet, matched, styled, done, input, parsed, css, layout,
                   source, view>>

\* rerender, lines 75-79: the stylesheet text of the document is parsed; a
\* parse error is a panic, which drops the guard and poisons the mutex.
RerenderStylesheet ==
    /\ pc.renderer = "rerender_locked"
    /\ css' = chars(stylesheet_text(node))
    /\ IF css_parse(css').panic
       THEN /\ pc' = [pc EXCEPT !.renderer = "panicked"]
            /\ mutex' = "poisoned"
            /\ UNCHANGED stylesheet
       ELSE /\ pc' = [pc EXCEPT !.renderer = "rerender_parsed"]
            /\ stylesheet' = css_parse(css').stylesheet
            /\ UNCHANGED mutex
    /\ UNCHANGED <<node, matched, styled, done, input, parsed, layout, source, view>>

\* rerender, line 80: to_styled_node(&document_element, &stylesheet).
RerenderStyle ==
    /\ pc.renderer = "rerender_parsed"
    /\ styled' = to_styled_node(node, stylesheet)
    /\ pc' = [pc EXCEPT !.renderer = "rerender_styled"]
    /\ UNCHANGED <<node, stylesheet, matched, done, input, parsed, css, layout,
                   source, mutex, view>>

\* rerender, line 81: to_layout_box(styled_node).
RerenderLayout ==
    /\ pc.renderer = "rerender_styled"
    /\ layout' = to_layout_box(styled[1])
    /\ pc' = [pc EXCEPT !.renderer = "rerender_laid"]
    /\ UNCHANGED <<node, stylesheet, matched, styled, done, input, parsed, css,
                   source, mutex, view>>

\* rerender, lines 80-83: self.view = to_element_container(layout_box).
RerenderViewCached ==
    /\ pc.renderer = "rerender_laid"
    /\ pc' = [pc EXCEPT !.renderer = "rerender_viewed"]
    /\ UNCHANGED <<node, stylesheet, matched, styled, done, input, parsed, css, layout,
                   source, mutex, view>>

RerenderView ==
    /\ pc.renderer = "rerender_laid"
    /\ view' = to_element_container(layout[1])
    /\ pc' = [pc EXCEPT !.renderer = "rerender_viewed"]
    /\ UNCHANGED <<node, stylesheet, matched, styled, done, input, parsed, css, layout,
                   source, mutex>>

\* rerender, line 84: the locals and the guard are dropped.
RerenderReturn ==
    /\ pc.renderer = "rerender_viewed"
    /\ mutex' = "free"
    /\ pc' = [pc EXCEPT !.renderer = "idle"]
    /\ css' = <<>>
    /\ stylesheet' = <<>>
    /\ styled' = None
    /\ layout' = None
    /\ UNCHANGED <<node, matched, done, input, parsed, source, view>>

\* execute_inline_scripts, line 88: self.document_element.lock().unwrap().
ExecLock ==
    /\ pc.renderer = "idle"
    /\ mutex = "free"
    /\ mutex' = "renderer"
    /\ pc' = [pc EXCEPT !.renderer = "exec_locked"]
    /\ UNCHANGED <<node, stylesheet, matched, styled, done, input, parsed, css, layout,
                   source, view>>

\* execute_inline_scripts, lines 89-90: the script text is collected and
\* the guard is dropped at the end of the block.
ExecCollectHolding ==
    /\ pc.renderer = "exec_locked"
    /\ input' = chars(join(collect_tag_inners(node, "script"), "\n"))
    /\ pc' = [pc EXCEPT !.renderer = "exec_running"]
    /\ UNCHANGED <<node, stylesheet, matched, styled, done, parsed, css, layout,
                   source, mutex, view>>

ExecCollect ==
    /\ pc.renderer = "exec_locked"
    /\ input' = chars(join(collect_tag_inners(node, "script"), "\n"))
    /\ mutex' = "free"
    /\ pc' = [pc EXCEPT !.renderer = "exec_running"]
    /\ UNCHANGED <<node, stylesheet, matched, styled, done, parsed, css, layout,
                   source, view>>

\* execute_inline_scripts, lines 91-93: the script engine has run the text,
\* and a script that took the lock has dropped it.
ExecReturn ==
    /\ pc.renderer = "exec_running"
    /\ pc.script = "idle"
    /\ input' = <<>>
    /\ pc' = [pc EXCEPT !.renderer = "idle"]
    /\ UNCHANGED <<node, stylesheet, matched, styled, done, parsed, css, layout,
                   source, mutex, view>>

\* The script collaborator locks the document element it shares.
ScriptLock ==
    /\ pc.script = "idle"
    /\ mutex = "free"
    /\ mutex' = "script"
    /\ pc' = [pc EXCEPT !.script = "locked"]
    /\ UNCHANGED <<node, stylesheet, matched, styled, done, input, parsed, css, layout,
                   source, view>>

\* The script collaborator mutates the tree under its guard.
ScriptMutate ==
    /\ pc.script = "locked"
    /\ node' \in Documents \ {node}
    /\ UNCHANGED <<stylesheet, matched, styled, done, input, parsed, css, layout,
                   source, mutex, pc, view>>

\* The script collaborator drops its guard.
ScriptUnlock ==
    /\ pc.script = "locked"
    /\ mutex' = "free"
    /\ pc' = [pc EXCEPT !.script = "idle"]
    /\ UNCHANGED <<node, stylesheet, matched, styled, done, input, parsed, css, layout,
                   source, view>>

NextRenderer ==
    \/ RerenderLock \/ RerenderStylesheet \/ RerenderStyle \/ RerenderLayout
    \/ RerenderView \/ RerenderReturn
    \/ ExecLock \/ ExecCollect \/ ExecReturn
    \/ ScriptLock \/ ScriptMutate \/ ScriptUnlock

SpecRenderer == InitRenderer /\ [][NextRenderer]_vars

(***************************************************************************)
(* Properties of the matcher and the resolver.                             *)
(***************************************************************************)
Resolved == "resolve" \in done /\ Len(styled) = 1

\* The pairs <<styled node, node>> at every depth of a styled tree and the
\* tree it was made from.
RECURSIVE StyledPairs(_, _)
StyledPairs(sn, n) ==
    {<<sn, n>>} \cup
    UNION {StyledPairs(sn.children[i], n.children[i]) :
              i \in 1..(IF Len(sn.children) < Len(n.children)
                        THEN Len(sn.children) ELSE Len(n.children))}

PropertyNames(sheet) ==
    UNION {{sheet[i].declarations[j].name : j \in 1..Len(sheet[i].declarations)} :
              i \in 1..Len(sheet)}

\* Positions <<rule, declaration>> of the declarations of property k in the
\* rules of the stylesheet that match n.
DeclsOf(n, sheet, k) ==
    UNION {{<<i, j>> : j \in {j \in 1..Len(sheet[i].declarations) :
                                 sheet[i].declarations[j].name = k}} :
              i \in {i \in 1..Len(sheet) : Rule_matches(sheet[i], n)}}

\* Position p comes after position q in stylesheet order.
After(p, q) == p[1] > q[1] \/ (p[1] = q[1] /\ p[2] > q[2])

LastDecl(n, sheet, k) ==
    CHOOSE p \in DeclsOf(n, sheet, k) :
        \A q \in DeclsOf(n, sheet, k) : q = p \/ After(p, q)

IsElement(n) == n.node_type.kind = "Element"

TagIs(n, tag) == IF IsElement(n) THEN n.node_type.tag_name = tag ELSE FALSE

HasAttr(n, a, v) ==
    IF IsElement(n)
    THEN a \in DOMAIN n.node_type.attributes /\ n.node_type.attributes[a] = v
    ELSE FALSE

\* C1: after to_styled_node, every node's property mapping holds exactly the
\* property names declared by the rules matching the node, each with the
\* value of the last such declaration in stylesheet order (rule order, then
\* declaration order), whatever the kinds of the selectors.
C1_LastDeclarationWins ==
    Resolved =>
        \A pr \in StyledPairs(styled[1], node) :
            /\ DOMAIN pr[1].properties \subseteq PropertyNames(stylesheet)
            /\ \A k \in PropertyNames(stylesheet) :
                  IF DeclsOf(pr[2], stylesheet, k) = {}
                  THEN k \notin DOMAIN pr[1].properties
                  ELSE /\ k \in DOMAIN pr[1].properties
                       /\ pr[1].properties[k] =
                            LET p == LastDecl(pr[2], stylesheet, k)
                            IN  stylesheet[p[1]].declarations[p[2]].value

\* A p element styled by a type rule followed by a universal rule and by a
\* rule with two declarations of one name: the later value is the result.
C1_Witness ==
    /\ Resolved
    /\ node = Element_new("p", HashMap_new, <<>>)
    /\ Len(stylesheet) = 2
    /\ stylesheet[1] = Rule(<<TypeSelector("p")>>,
                            <<Declaration("display", Keyword("inline"))>>)
    /\ stylesheet[2] = Rule(<<UniversalSelector>>,
                            <<Declaration("display", Keyword("inline")),
                              Declaration("display", Keyword("block"))>>)
    /\ styled[1].properties["display"] = Keyword("block")

\* C2: Rule::matches is true exactly when at least one selector of the rule
\* matches the node; a rule of two type selectors matches an element tagged
\* with the second.
C2_RuleMatchesAny ==
    "match" \in done =>
        /\ matched.rule = (\E j \in 1..Len(matched.selectors) : matched.selectors[j])
        /\ \A j \in 1..Len(stylesheet[1].selectors) :
              (/\ stylesheet[1].selectors[j].kind = "TypeSelector"
               /\ TagIs(node, stylesheet[1].selectors[j].tag_name)) => matched.rule

C2_Witness ==
    /\ "match" \in done
    /\ stylesheet[1].selectors = <<TypeSelector("p"), TypeSelector("div")>>
    /\ TagIs(node, "div")
    /\ matched.rule
    /\ matched.selectors = <<FALSE, TRUE>>

\* C3: a type selector matches a node exactly when the node is an element
\* with that tag name; it never matches a text node.
C3_TypeSelector ==
    "match" \in done =>
        \A j \in 1..Len(stylesheet[1].selectors) :
            stylesheet[1].selectors[j].kind = "TypeSelector" =>
                (matched.selectors[j] = TagIs(node, stylesheet[1].selectors[j].tag_name))

\* A type selector applied to a text node whose text is the tag name.
C3_Witness ==
    /\ "match" \in done
    /\ stylesheet[1].selectors = <<TypeSelector("p")>>
    /\ node = Text_new("p")
    /\ matched.selectors = <<FALSE>>

C5_AttributeRuleNeedsValue ==
    (/\ Resolved
     /\ Len(stylesheet[1].selectors) = 1
     /\ stylesheet[1].selectors[1].kind = "AttributeSelector"
     /\ stylesheet[1].selectors[1].op = "Eq"
     /\ IsElement(node))
        => ("testname" \in DOMAIN styled[1].properties
               <=> /\ TagIs(node, stylesheet[1].selectors[1].tag_name)
                   /\ HasAttr(node, stylesheet[1].selectors[1].attribute,
                              stylesheet[1].selectors[1].value))

\* C6: a class selector matches no node, and a rule with only class
\* selectors contributes no declaration.
C6_ClassNeverMatches ==
    /\ "match" \in done =>
          \A j \in 1..Len(stylesheet[1].selectors) :
              stylesheet[1].selectors[j].kind = "ClassSelector" =>
                  ~matched.selectors[j]
    /\ (/\ Resolved
        /\ \A i \in 1..Len(stylesheet) : \A j \in 1..Len(stylesheet[i].selectors) :
              stylesheet[i].selectors[j].kind = "ClassSelector")
          => styled[1].properties = HashMap_new

\* .test applied to an element whose class attribute is test.
C6_Witness ==
    /\ done = {"match", "resolve"}
    /\ stylesheet[1].selectors = <<ClassSelector("test")>>
    /\ HasAttr(node, "class", "test")
    /\ matched.selectors = <<FALSE>>
    /\ styled[1].properties = HashMap_new

ContainsUniversal(r) ==
    \E j \in 1..Len(r.selectors) : r.selectors[j].kind = "UniversalSelector"

\* C7: the universal selector matches every node, and the declarations of a
\* rule containing it reach every node of the tree, text nodes included.
C7_UniversalMatchesAll ==
    /\ "match" \in done =>
          \A j \in 1..Len(stylesheet[1].selectors) :
              stylesheet[1].selectors[j].kind = "UniversalSelector" =>
                  matched.selectors[j]
    /\ Resolved =>
          \A i \in 1..Len(stylesheet) :
              ContainsUniversal(stylesheet[i]) =>
                  \A pr \in StyledPairs(styled[1], node) :
                      \A j \in 1..Len(stylesheet[i].declarations) :
                          stylesheet[i].declarations[j].name \in DOMAIN pr[1].properties

\* A text node two levels down that is styled by a universal rule.
C7_Witness ==
    /\ done = {"match", "resolve"}
    /\ stylesheet[1].selectors = <<UniversalSelector>>
    /\ matched.selectors = <<TRUE>>
    /\ \E pr \in StyledPairs(styled[1], node) :
          /\ pr[2].node_type.kind = "Text"
          /\ pr[2] # node
          /\ "display" \in DOMAIN pr[1].properties
    /\ \E i \in 1..Len(node.children) : Len(node.children[i].children) > 0

\* C8: to_styled_node returns Some for every tree and stylesheet, the empty
\* one included, and a node matched by no rule has an empty property mapping.
C8_AlwaysSome ==
    "resolve" \in done =>
        /\ Len(styled) = 1
        /\ \A pr \in StyledPairs(styled[1], node) :
              (\A i \in 1..Len(stylesheet) : ~Rule_matches(stylesheet[i], pr[2]))
                  => pr[1].properties = HashMap_new

\* An empty stylesheet applied to a tree with children.
C8_Witness ==
    /\ Resolved
    /\ stylesheet = <<>>
    /\ Len(node.children) > 0
    /\ styled[1].properties = HashMap_new

\* The styled tree has the shape of the node tree.
RECURSIVE SameShape(_, _)
SameShape(sn, n) ==
    /\ sn.node_type = n.node_type
    /\ Len(sn.children) = Len(n.children)
    /\ \A i \in 1..Len(n.children) : SameShape(sn.children[i], n.children[i])

\* C9: the styled tree mirrors the node tree: same node type at every
\* position, one styled child per child, in document order.
C9_SameShape ==
    "resolve" \in done => Len(styled) = 1 /\ SameShape(styled[1], node)

\* A resolved tree of three levels whose root has two different children.
C9_Witness ==
    /\ Resolved
    /\ Len(node.children) = 2
    /\ node.children[1] # node.children[2]
    /\ \E i \in 1..2 : Len(node.children[i].children) > 0
    /\ SameShape(styled[1], node)

(***************************************************************************)
(* Properties of the markup parser.                                        *)
(***************************************************************************)
\* Inputs whose open tag is closed by a tag of another name: <a></b>,
\* <b></a> and <a><b></a></b>.
MismatchedInputs ==
    {<<"<", "a", ">", "<", "/", "b", ">">>,
     <<"<", "b", ">", "<", "/", "a", ">">>,
     <<"<", "a", ">", "<", "b", ">", "<", "/", "a", ">", "<", "/", "b", ">">>}

\* C10: a parse of markup whose open and close tag names differ fails with
\* the tag-mismatch error, for element() and for the node sequence parser
\* alike; the failure is not absorbed into a successful or a generic result.
C10_TagMismatchFails ==
    (parsed.parser # "none" /\ input \in MismatchedInputs) =>
        /\ ~parsed.result.ok
        /\ parsed.result.msg = TagMismatch

\* C11: a node sequence parse that succeeds has consumed its whole input: a
\* well-formed prefix followed by markup that does not parse is a failure,
\* the nodes of the prefix are not returned as a successful result.
C11_NoPartialTree ==
    parsed.parser = "nodes" =>
        ~(parsed.result.ok /\ parsed.result.pos <= Len(input))

\* The position of the first '<' of the input at or after pos, the end of
\* the input if there is none.
RECURSIVE FirstTagOpen(_, _)
FirstTagOpen(in, pos) ==
    IF pos > Len(in) \/ in[pos] = "<" THEN pos ELSE FirstTagOpen(in, pos + 1)

\* The characters in[from..to - 1] as a string.
RECURSIVE Run(_, _, _)
Run(in, from, to) == IF from >= to THEN "" ELSE in[from] \o Run(in, from + 1, to)

\* The Text nodes of a tree.
RECURSIVE TextNodes(_)
TextNodes(n) ==
    IF IsElement(n) THEN UNION {TextNodes(n.children[i]) : i \in 1..Len(n.children)}
    ELSE {n}

\* The nodes a parse has produced: none for an error, the element of
\* element(), the node of text(), the node sequence of nodes_().
ParsedNodes ==
    IF ~parsed.result.ok THEN {}
    ELSE IF parsed.parser = "nodes"
    THEN {parsed.result.value[i] : i \in 1..Len(parsed.result.value)}
    ELSE IF parsed.parser \in {"element", "text"} THEN {parsed.result.value}
    ELSE {}

WellFormedText(n) ==
    /\ n.node_type.data # ""
    /\ \A i \in 1..Len(n.node_type.data) : SubSeq(n.node_type.data, i, i) # "<"

\* C20: text() consumes the longest non-empty run of characters other than
\* '<' and stops before the next '<'; on an input that is empty or starts
\* with '<' it fails without consuming and without a node; and no Text
\* node produced by any of the parsers has empty data or holds a '<'.
C20_TextMaximalRun ==
    /\ parsed.parser = "text" =>
          IF FirstTagOpen(input, 1) = 1
          THEN ~parsed.result.ok /\ ~parsed.result.committed /\ parsed.result.pos = 1
          ELSE /\ parsed.result.ok
               /\ parsed.result.pos = FirstTagOpen(input, 1)
               /\ parsed.result.value =
                     Text_new(Run(input, 1, FirstTagOpen(input, 1)))
    /\ \A n \in ParsedNodes : \A t \in TextNodes(n) : WellFormedText(t)

\* text() has stopped before a '<' after a run of several characters.
C20_Witness ==
    /\ parsed.parser = "text"
    /\ parsed.result.ok
    /\ parsed.result.pos > 2
    /\ parsed.result.pos <= Len(input)
    /\ input[parsed.result.pos] = "<"
    /\ parsed.result.value = Text_new("a!a!")

(***************************************************************************)
(* Properties of the stylesheet parser.                                    *)
(***************************************************************************)
\* The text is the rule list of stylesheet with whitespace around its
\* rules and nothing else.
WellFormedCss ==
    \E sp \in Spacings \X Spacings \X Spacings :
        css = chars(StylesheetText(stylesheet, sp))

\* C12: css::parse of the text of a rule list gives one Rule for each rule
\* block in source order, with its selectors and its declarations in source
\* order, whatever whitespace and newlines stand before, between and after
\* the rules; "p { display: block; }" gives the single rule of selector
\* Type(p) and declaration (display, Keyword(block)).
C12_RulesInSourceOrder ==
    (parsed.parser = "css" /\ WellFormedCss) =>
        /\ ~parsed.result.panic
        /\ parsed.result.stylesheet = stylesheet
        /\ css = chars("p { display: block; }") =>
              parsed.result.stylesheet =
                  <<Rule(<<TypeSelector("p")>>,
                         <<Declaration("display", Keyword("block"))>>)>>

\* Two different rules with newlines before, between and after them.
C12_Witness ==
    /\ parsed.parser = "css"
    /\ Len(stylesheet) = 2
    /\ stylesheet[1] # stylesheet[2]
    /\ Len(stylesheet[1].declarations) = 2
    /\ css = chars(StylesheetText(stylesheet, <<"\n", "\n", "\n">>))
    /\ parsed.result.stylesheet = stylesheet

\* C13: a text that is not the text of a rule list (valid rules followed by
\* text that is not a rule, or by an unterminated rule) makes css::parse
\* fail; it never gives the list of the rules before the violation.
C13_ViolationFails ==
    (parsed.parser = "css" /\ ~WellFormedCss) => parsed.result.panic

\* C23: every Rule that css::parse returns has at least one selector; a
\* block with no selector before its brace, as in "{ display: block; }", is
\* not parsed into a Rule with an empty selector list.
C23_AtLeastOneSelector ==
    (parsed.parser = "css" /\ ~parsed.result.panic) =>
        \A i \in 1..Len(parsed.result.stylesheet) :
            Len(parsed.result.stylesheet[i].selectors) >= 1

\* The text ends with the characters of s.
EndsWith(in, s) ==
    /\ Len(in) >= Len(s)
    /\ SubSeq(in, Len(in) - Len(s) + 1, Len(in)) = chars(s)

\* C14: an attribute selector whose operator token is neither '=' nor '~='
\* fails with the error "invalid attribute selector op", for css::parse and
\* for simple_selector() alike.
C14_InvalidOpError ==
    /\ (parsed.parser = "css" /\ (EndsWith(css, "p[a!b]{}") \/ EndsWith(css, "p[a~b]{}")))
          => (parsed.result.panic /\ parsed.result.msg = InvalidOp)
    /\ (parsed.parser = "simple_selector"
            /\ css \in {chars("p[a!b]{}"), chars("p[a~b]{}")})
          => (~parsed.result.ok /\ parsed.result.msg = InvalidOp)

(***************************************************************************)
(* Properties of the layout builder.                                       *)
(***************************************************************************)
DisplayIs(sn, d) ==
    IF "display" \in DOMAIN sn.properties
    THEN sn.properties["display"].keyword = d
    ELSE FALSE

NotNone(sn) == ~DisplayIs(sn, "none")

\* The node types of the boxes of a layout tree, in document order.
RECURSIVE BoxNodeTypes(_)
BoxNodeTypes(b) ==
    <<b.box_type.props.node_type>>
        \o Flatten([i \in 1..Len(b.children) |-> BoxNodeTypes(b.children[i])])

\* The node types of the styled nodes that neither resolve to display none
\* nor lie below a node that does, in document order.
RECURSIVE ShownNodeTypes(_)
ShownNodeTypes(sn) ==
    IF DisplayIs(sn, "none") THEN <<>>
    ELSE <<sn.node_type>>
            \o Flatten([i \in 1..Len(sn.children) |-> ShownNodeTypes(sn.children[i])])

\* C15: the boxes of the layout tree are those of the styled nodes that
\* neither resolve to display none nor lie below such a node: a node of
\* display none and its whole subtree have no box, whatever the display of
\* the descendants.
C15_NoneOmitted ==
    "layout" \in done =>
        Flatten([i \in 1..Len(layout) |-> BoxNodeTypes(layout[i])])
            = ShownNodeTypes(styled[1])

\* A shown root with a child of display none whose own child is of display
\* block: the root's box has no child box.
C15_Witness ==
    /\ "layout" \in done
    /\ NotNone(styled[1])
    /\ Len(styled[1].children) = 1
    /\ DisplayIs(styled[1].children[1], "none")
    /\ Len(styled[1].children[1].children) > 0
    /\ DisplayIs(styled[1].children[1].children[1], "block")
    /\ Len(layout) = 1
    /\ layout[1].children = <<>>

\* The pairs <<box, styled node>> of a layout tree and the styled tree it
\* was built from, a box being paired with the shown node at its position.
RECURSIVE BoxPairs(_, _)
BoxPairs(b, sn) ==
    {<<b, sn>>} \cup
    UNION {BoxPairs(b.children[i], SelectSeq(sn.children, NotNone)[i]) :
              i \in 1..(IF Len(b.children) < Len(SelectSeq(sn.children, NotNone))
                        THEN Len(b.children)
                        ELSE Len(SelectSeq(sn.children, NotNone)))}

\* C16: the layout builder gives a box for every styled tree whose root is
\* not of display none; in it, a node without a display property and a node
\* whose display is none of none, block and inline have a block box, and no
\* such node is left out.
C16_DefaultIsBlock ==
    ("layout" \in done /\ NotNone(styled[1])) =>
        /\ Len(layout) = 1
        /\ \A pr \in BoxPairs(layout[1], styled[1]) :
              /\ pr[1].box_type.props.node_type = pr[2].node_type
              /\ Len(pr[1].children) = Len(SelectSeq(pr[2].children, NotNone))
              /\ ("display" \notin DOMAIN pr[2].properties
                    \/ pr[2].properties["display"].keyword
                          \notin {"none", "block", "inline"})
                    => pr[1].box_type.kind = "BlockBox"

\* A root of display flex with a child that has no display property: both
\* have a block box.
C16_Witness ==
    /\ "layout" \in done
    /\ DisplayIs(styled[1], "flex")
    /\ Len(styled[1].children) > 0
    /\ "display" \notin DOMAIN styled[1].children[1].properties
    /\ Len(layout) = 1
    /\ layout[1].box_type.kind = "BlockBox"
    /\ layout[1].children[1].box_type.kind = "BlockBox"

(***************************************************************************)
(* Properties of the pipeline.                                             *)
(***************************************************************************)
BlockProperties == [k \in {"display"} |-> Keyword("block")]

\* C17: the markup <div class="x"><p>hi</p></div> with the stylesheet
\* "div, p { display: block; }" gives a block box of div whose only child
\* is a block box of p whose only child is the box of the text "hi"; the
\* text node, matched by no rule, has its box.
C17_EndToEnd ==
    (/\ "layout" \in done
     /\ input = chars("<div class=\"x\"><p>hi</p></div>")
     /\ css = chars("div, p { display: block; }")) =>
        layout =
            Some(LayoutBox(
                BlockBox(BoxProps(ElementType("div", [k \in {"class"} |-> "x"]),
                                  BlockProperties)),
                <<LayoutBox(
                    BlockBox(BoxProps(ElementType("p", HashMap_new), BlockProperties)),
                    <<LayoutBox(BlockBox(BoxProps(TextType("hi"), HashMap_new)),
                                <<>>)>>)>>))

\* The layout of that markup and that stylesheet, with the text "hi" in the
\* innermost box.
C17_Witness ==
    /\ "layout" \in done
    /\ input = chars("<div class=\"x\"><p>hi</p></div>")
    /\ css = chars("div, p { display: block; }")
    /\ Len(stylesheet) = 1
    /\ Len(layout) = 1
    /\ layout[1].children[1].children[1].box_type.props.node_type.data = "hi"

\* The nodes of a tree in document order, each with whether it lies inside
\* a style element.
RECURSIVE Preorder(_, _)
Preorder(n, inside) ==
    <<[node |-> n, inside |-> inside]>>
        \o Flatten([i \in 1..Len(n.children) |->
                       Preorder(n.children[i], inside \/ TagIs(n, "style"))])

IsTextEntry(e) == ~IsElement(e.node)

IsStyleEntry(e) == TagIs(e.node, "style")

IsOutermostStyleEntry(e) == TagIs(e.node, "style") /\ ~e.inside

\* The data of the Text nodes of a tree, in document order, as one string.
TextContent(n) ==
    join([i \in 1..Len(SelectSeq(Preorder(n, FALSE), IsTextEntry)) |->
             SelectSeq(Preorder(n, FALSE), IsTextEntry)[i].node.node_type.data],
         "")

\* The text content of every style element, in document order.
StyleTexts(n) ==
    [i \in 1..Len(SelectSeq(Preorder(n, FALSE), IsStyleEntry)) |->
        TextContent(SelectSeq(Preorder(n, FALSE), IsStyleEntry)[i].node)]

\* The text content of the style elements that lie in no other style
\* element, in document order.
OutermostStyleTexts(n) ==
    [i \in 1..Len(SelectSeq(Preorder(n, FALSE), IsOutermostStyleEntry)) |->
        TextContent(SelectSeq(Preorder(n, FALSE), IsOutermostStyleEntry)[i].node)]

\* The rules of the default stylesheet.
DefaultRules ==
    <<Rule(<<TypeSelector("script"), TypeSelector("style")>>,
           <<Declaration("display", Keyword("none"))>>),
      Rule(<<TypeSelector("p"), TypeSelector("div")>>,
           <<Declaration("display", Keyword("block"))>>)>>

\* C19 as stated: the assembled stylesheet text is the default stylesheet
\* followed by the text content of every style element of the document in
\* depth-first document order.
C19_EveryStyleElement ==
    "assemble" \in done =>
        css = chars(DEFAULT_STYLESHEET \o "\n" \o join(StyleTexts(node), "\n"))

\* C19 amended: the assembled stylesheet text is the default stylesheet
\* followed by the text content of every style element that lies in no
\* other style element, in depth-first document order (a style element
\* inside a style element only adds to the text content of the outer one);
\* the rules parsed from it start with the default rules, and a node
\* matched by a document rule that declares display has the value of the
\* last such declaration, not the default one.
C19_OutermostStyleElements ==
    "assemble" \in done =>
        /\ css = chars(DEFAULT_STYLESHEET \o "\n"
                           \o join(OutermostStyleTexts(node), "\n"))
        /\ "stylesheet" \in done =>
              /\ Len(stylesheet) >= 2
              /\ SubSeq(stylesheet, 1, 2) = DefaultRules
        /\ Resolved =>
              \A pr \in StyledPairs(styled[1], node) :
                  (\E q \in DeclsOf(pr[2], stylesheet, "display") : q[1] > 2) =>
                      /\ LastDecl(pr[2], stylesheet, "display")[1] > 2
                      /\ pr[1].properties["display"] =
                            stylesheet[LastDecl(pr[2], stylesheet, "display")[1]]
                                .declarations[LastDecl(pr[2], stylesheet, "display")[2]]
                                .value

\* A document with a style element inside a style element, resolved: the
\* outer element's text gives the document rules, and the root div, block
\* by default, resolves to the display none of the document rule.
C19_Witness ==
    /\ "assemble" \in done
    /\ Resolved
    /\ Len(OutermostStyleTexts(node)) = 1
    /\ Len(StyleTexts(node)) = 2
    /\ Len(stylesheet) = 4
    /\ TagIs(node, "div")
    /\ DisplayIs(styled[1], "none")

(***************************************************************************)
(* Properties of the attribute parsers.                                    *)
(***************************************************************************)
\* The mapping of the names of a list of attributes to the value of the
\* last attribute of that name.
LastWins(attrs) ==
    [n \in {attrs[i][1] : i \in 1..Len(attrs)} |->
        attrs[CHOOSE i \in 1..Len(attrs) :
                 /\ attrs[i][1] = n
                 /\ \A j \in (i + 1)..Len(attrs) : attrs[j][1] # n][2]]

\* C21: the attribute mapping of an open tag holds each name written in the
\* tag once, with the value of its last occurrence, whatever the order of
\* the names; so for attributes(), for open_tag() and for element().
C21_LastAttributeWins ==
    /\ parsed.parser = "attributes" =>
          (parsed.result.ok /\ parsed.result.value = LastWins(source.attrs))
    /\ parsed.parser = "open_tag" =>
          (parsed.result.ok /\ parsed.result.value = <<"p", LastWins(source.attrs)>>)
    /\ parsed.parser = "tag_element" =>
          (parsed.result.ok
             /\ parsed.result.value = Element_new("p", LastWins(source.attrs), <<>>))

\* An open tag with the name a written twice with different values, around
\* another name: the mapping has two names and the second value of a.
C21_Witness ==
    /\ parsed.parser = "open_tag"
    /\ source.attrs = <<<<"a", "b">>, <<"c", "d">>, <<"a", "d">>>>
    /\ source.separator = " "
    /\ parsed.result.value[2] = [n \in {"a", "c"} |-> "d"]

\* C22: an open tag in which an attribute directly follows the closing
\* quote of the one before, with no whitespace between them, is rejected,
\* by open_tag() and by element().
C22_WhitespaceMandatory ==
    (/\ parsed.parser \in {"open_tag", "tag_element"}
     /\ Len(source.attrs) >= 2
     /\ source.separator = "") => ~parsed.result.ok

(***************************************************************************)
(* Properties of the repetitions.                                          *)
(***************************************************************************)
\* The number of element levels of a node.
RECURSIVE NodeDepth(_)
NodeDepth(n) ==
    IF n.node_type.kind = "Text" THEN 0
    ELSE LET depths == {0} \cup {NodeDepth(n.children[i]) : i \in 1..Len(n.children)}
         IN  1 + CHOOSE d \in depths : \A e \in depths : e <= d

\* The text the loop of parsed runs on.
StepsText == IF parsed.parser = "many_nodes" THEN input ELSE css

\* An iteration of the loop has just succeeded.
IterationSucceeded == parsed.status = "running" /\ parsed.last # None

\* An iteration that succeeds consumes at least one character, the position
\* stays within the text, and the element levels of a parsed node are at
\* most the characters the node was parsed from.
StepsProgress ==
    /\ parsed.pos \in 1..(Len(StepsText) + 1)
    /\ parsed.prev <= parsed.pos
    /\ IterationSucceeded => parsed.pos > parsed.prev
    /\ (IterationSucceeded /\ parsed.parser = "many_nodes") =>
          NodeDepth(parsed.last[1]) <= parsed.pos - parsed.prev

StepsFinished == parsed.status \in {"done", "failed"}

\* C24: on every finite input the repeated node parser and the repeated rule
\* parser come to an end: each iteration that succeeds consumes at least one
\* character, so the position, which never passes the end of the text, grows
\* until an iteration fails; and the nesting of a parsed element is bounded
\* by the characters consumed for it.
C24_ParsersTerminate == []StepsProgress /\ <>StepsFinished

\* The node repetition has reached the end of the input by an iteration
\* that parsed an element, and that was not its first iteration.
C24_Witness ==
    /\ parsed.parser = "many_nodes"
    /\ parsed.status = "running"
    /\ parsed.prev > 1
    /\ parsed.last # None
    /\ NodeDepth(parsed.last[1]) = 1
    /\ parsed.pos = Len(input) + 1

(***************************************************************************)
(* Properties of the renderer.                                             *)
(***************************************************************************)
InRerender ==
    pc.renderer \in {"rerender_locked", "rerender_parsed", "rerender_styled",
                     "rerender_laid", "rerender_viewed"}

\* What the pass has computed so far is computed from the tree as it is now.
PassOfCurrentTree ==
    /\ pc.renderer \in {"rerender_parsed", "rerender_styled", "rerender_laid",
                        "rerender_viewed"} =>
          /\ css = chars(stylesheet_text(node))
          /\ stylesheet = css_parse(css).stylesheet
    /\ pc.renderer \in {"rerender_styled", "rerender_laid", "rerender_viewed"} =>
          styled = to_styled_node(node, stylesheet)
    /\ pc.renderer \in {"rerender_laid", "rerender_viewed"} =>
          layout = to_layout_box(styled[1])
    /\ pc.renderer = "rerender_viewed" => view = to_element_container(layout[1])

\* C25: during a rerender pass, from the lock to the return, the renderer
\* holds the document mutex and the script collaborator does not, so the
\* tree is not mutated within the pass: the stylesheet, the styled tree, the
\* layout tree and the view of the pass are those of one tree, the current.
C25_PassHoldsMutex ==
    InRerender => (mutex = "renderer" /\ pc.script # "locked" /\ PassOfCurrentTree)

\* A pass has made its view while the script collaborator, which mutated
\* the tree before the pass, is waiting for the mutex.
C25_Witness ==
    /\ pc.renderer = "rerender_viewed"
    /\ mutex = "renderer"
    /\ pc.script = "idle"
    /\ node = Body(<<Style("p { display: inline; }"), Paragraph("hi"), Script("x")>>)
    /\ styled # None
    /\ layout # None

\* C26: when a rerender pass has assigned the view, whatever passes and
\* mutations came before, the view is the view of the current tree alone,
\* made from the stylesheet of its current style elements and the styled and
\* layout trees of the current tree.
C26_ViewOfCurrentTree ==
    pc.renderer = "rerender_viewed" =>
        /\ view = view_of(node)
        /\ stylesheet = css_parse(chars(stylesheet_text(node))).stylesheet
        /\ styled = to_styled_node(node, stylesheet)
        /\ layout = to_layout_box(styled[1])

\* A pass on a tree a script has put a style element into, which hides the
\* paragraph the view showed before.
C26_Witness ==
    /\ pc.renderer = "rerender_viewed"
    /\ node = Body(<<Style("p { display: none; }"), Paragraph("hi")>>)
    /\ view = Panel("vertical", "body", <<>>)

\* C27: while the script engine runs the inline scripts, the renderer does
\* not hold the document mutex: it released it after collecting the script
\* text, so the mutex is free for a script that locks the tree, or held by
\* that script.
C27_EngineRunsUnlocked ==
    pc.renderer = "exec_running" =>
        /\ mutex # "renderer"
        /\ pc.script = "idle" => mutex = "free"

\* The script holds the lock of the tree while the engine runs.
C27_Witness ==
    /\ pc.renderer = "exec_running"
    /\ input = <<"x">>
    /\ mutex = "script"
    /\ pc.script = "locked"

====
